---- MODULE Spec2Model ----
(***************************************************************************)
(* Model of the oo_learn tutorial classes:                                 *)
(*   01_encapsulation.py : BankAccount                                     *)
(*   04_abstraction.py   : Database / MySQLDatabase / SQLiteDatabase,      *)
(*                         NotificationFacade, WeatherReport               *)
(* Each demo is independent of the others; each has its own specification  *)
(* over the shared variable tuple, the other demos' variables staying at   *)
(* their initial values.                                                   *)
(***************************************************************************)
EXTENDS Integers, Sequences, FiniteSets, TLC

VARIABLES
    initial,      \* BankAccount: the initial_balance given to __init__
    balance,      \* BankAccount.__balance
    history,      \* BankAccount.__transaction_history: the dicts, by position
    statement,    \* the list a caller got from get_statement(), as references
    held,         \* whether the caller holds such a list
    calls,        \* history variable: the calls that returned True, in order
    lastCall,     \* the most recent BankAccount operation and what it reported
    connected,    \* Database: _connected of the instance of each backend
    everConnected,\* history variable: connect() was called on the instance
    lastConn,     \* history variable: the latest of connect/disconnect called
    dbCall,       \* the most recent Database operation and its outcome
    execOut,      \* find_by_id on any Database: what self.execute does
    found,        \* find_by_id on any Database: the call and its outcome
    notified,     \* NotificationFacade: the latest notify_user call
    api,          \* WeatherReport._api
    report        \* WeatherReport: the latest generate call

bankVars == <<initial, balance, history, statement, held, calls, lastCall>>
dbVars == <<connected, everConnected, lastConn, dbCall>>
findVars == <<execOut, found>>
notifyVars == <<notified>>
weatherVars == <<api, report>>

vars == <<bankVars, dbVars, findVars, notifyVars, weatherVars>>

notBank == <<dbVars, findVars, notifyVars, weatherVars>>
notDb == <<bankVars, findVars, notifyVars, weatherVars>>
notFind == <<bankVars, dbVars, notifyVars, weatherVars>>
notNotify == <<bankVars, dbVars, findVars, weatherVars>>
notWeather == <<bankVars, dbVars, findVars, notifyVars>>

----------------------------------------------------------------------------
(* Bounds *)
MaxDebit == 1
MaxAmount == 2
MaxLog == 2
MaxTime == 0
MaxId == 3
MaxRows == 3
MaxFrost == 2
MaxTemp == 36

Amounts == (0 - MaxDebit)..MaxAmount
InitialBalances == (0 - MaxDebit)..MaxAmount
Times == 0..MaxTime

----------------------------------------------------------------------------
(* 01_encapsulation.py : BankAccount *)

\* The dict built by __record_transaction.
Transaction(type, amount, timestamp) ==
    [type |-> type, amount |-> amount, timestamp |-> timestamp]

\* Mutant of record_transaction: the new dict goes to the front of the list.
record_transaction_front(hist, type, amount, timestamp) ==
    <<Transaction(type, amount, timestamp)>> \o hist

\* __record_transaction: append one fresh dict to the internal list.
record_transaction(hist, type, amount, timestamp) ==
    Append(hist, Transaction(type, amount, timestamp))

\* Mutant of depositBody: the validation rejects only negative amounts.
depositBody_zero_ok(bal, a) ==
    IF a < 0
    THEN [ret |-> FALSE, balance |-> bal, msg |-> "deposit_not_positive",
          rec |-> ""]
    ELSE [ret |-> TRUE, balance |-> bal + a, msg |-> "deposit_done",
          rec |-> "deposit"]

\* deposit, as a function of the balance and the amount: the value returned,
\* the new balance, the line printed, and the kind recorded ("" when
\* __record_transaction is not reached).
depositBody(bal, a) ==
    IF a <= 0
    THEN [ret |-> FALSE, balance |-> bal, msg |-> "deposit_not_positive",
          rec |-> ""]
    ELSE [ret |-> TRUE, balance |-> bal + a, msg |-> "deposit_done",
          rec |-> "deposit"]

\* Mutant of withdrawBody: the balance check is missing.
withdrawBody_no_funds_check(bal, a) ==
    IF a <= 0
    THEN [ret |-> FALSE, balance |-> bal, msg |-> "withdraw_not_positive",
          rec |-> ""]
    ELSE [ret |-> TRUE, balance |-> bal - a, msg |-> "withdraw_done",
          rec |-> "withdraw"]

\* Mutant of withdrawBody: the balance check refuses a withdrawal of the
\* whole balance and debits the account before it refuses.
withdrawBody_debit_first(bal, a) ==
    IF a <= 0
    THEN [ret |-> FALSE, balance |-> bal, msg |-> "withdraw_not_positive",
          rec |-> ""]
    ELSE IF a >= bal
    THEN [ret |-> FALSE, balance |-> bal - a, msg |-> "insufficient_funds",
          rec |-> ""]
    ELSE [ret |-> TRUE, balance |-> bal - a, msg |-> "withdraw_done",
          rec |-> "withdraw"]

\* withdraw, likewise.
withdrawBody(bal, a) ==
    IF a <= 0
    THEN [ret |-> FALSE, balance |-> bal, msg |-> "withdraw_not_positive",
          rec |-> ""]
    ELSE IF a > bal
    THEN [ret |-> FALSE, balance |-> bal, msg |-> "insufficient_funds",
          rec |-> ""]
    ELSE [ret |-> TRUE, balance |-> bal - a, msg |-> "withdraw_done",
          rec |-> "withdraw"]

\* The effect of one deposit/withdraw call on the account.
Apply(op, a, t, r) ==
    /\ r.rec # "" => Len(history) < MaxLog
    /\ balance' = r.balance
    /\ history' = IF r.rec # "" THEN record_transaction(history, r.rec, a, t)
                  ELSE history
    /\ calls' = IF r.ret THEN Append(calls, Transaction(op, a, t)) ELSE calls
    /\ lastCall' = [op |-> op, amount |-> a, ret |-> r.ret, msg |-> r.msg,
                    balBefore |-> balance, histBefore |-> history]
    /\ UNCHANGED <<initial, statement, held, notBank>>

deposit(a, t) == Apply("deposit", a, t, depositBody(balance, a))

withdraw(a, t) == Apply("withdraw", a, t, withdrawBody(balance, a))

\* A reference held by the caller: to the i-th dict of the internal list, or
\* to a dict of the caller's own.
Ref(i) == [internal |-> TRUE, at |-> i, own |-> Transaction("", 0, 0)]
Own(d) == [internal |-> FALSE, at |-> 0, own |-> d]

\* list.copy(): a new list holding the same dict objects.
ShallowCopy(hist) == [i \in 1..Len(hist) |-> Ref(i)]

get_statement ==
    /\ statement' = ShallowCopy(history)
    /\ held' = TRUE
    /\ lastCall' = [op |-> "get_statement", amount |-> 0, ret |-> TRUE,
                    msg |-> "", balBefore |-> balance, histBefore |-> history]
    /\ UNCHANGED <<initial, balance, history, calls, notBank>>

NoCall == [op |-> "init", amount |-> 0, ret |-> TRUE, msg |-> "",
           balBefore |-> 0, histBefore |-> <<>>]

\* BankAccount.__init__
InitBank ==
    /\ initial \in InitialBalances
    /\ balance = initial
    /\ history = <<>>
    /\ statement = <<>>
    /\ held = FALSE
    /\ calls = <<>>
    /\ lastCall = [NoCall EXCEPT !.balBefore = initial]

\* An account the other demos leave alone.
IdleBank == InitBank /\ initial = 0

Next ==
    \/ \E a \in Amounts, t \in Times : deposit(a, t)
    \/ \E a \in Amounts, t \in Times : withdraw(a, t)
    \/ get_statement


----------------------------------------------------------------------------
(* Claims about BankAccount *)

IsTransaction(c) == c.op \in {"deposit", "withdraw"}

\* C1: an account constructed with an initial balance >= 0 never has a
\* negative balance, whatever amounts deposit and withdraw are called with,
\* and the balance changes only in a deposit/withdraw call that returns True.
C1_BalanceNeverNegative ==
    /\ [](initial >= 0 => balance >= 0)
    /\ [][balance' # balance =>
             /\ IsTransaction(lastCall')
             /\ lastCall'.ret]_vars

\* Reached: on an account that started non-negative, a refused overdraft and
\* a withdrawal of the whole balance.
C1_Witness ==
    /\ initial >= 0
    /\ Len(history) > 0
    /\ \/ lastCall.op = "withdraw" /\ lastCall.ret /\ balance = 0
       \/ lastCall.op = "withdraw" /\ ~lastCall.ret
          /\ lastCall.amount > lastCall.balBefore

\* C2: deposit(a) and withdraw(a) with a <= 0 return False and leave the
\* balance and the transaction log as they were, in every account state.
C2_NonPositiveRejected ==
    (IsTransaction(lastCall) /\ lastCall.amount <= 0) =>
        /\ lastCall.ret = FALSE
        /\ balance = lastCall.balBefore
        /\ history = lastCall.histBefore

\* Reached: deposit(0) on an account that already has a log entry.
C2_Witness ==
    /\ lastCall.op = "deposit"
    /\ lastCall.amount = 0
    /\ Len(history) > 0

\* The value withdraw returns for an amount that is not positive.
InvalidAmountReturn == withdrawBody(0, 0).ret

\* C3 as stated: withdraw(a) with a greater than the current balance changes
\* nothing and reports "insufficient funds", and what the caller gets back
\* differs from what it gets back for an invalid amount.
C3_AsStated ==
    (lastCall.op = "withdraw" /\ lastCall.amount > lastCall.balBefore) =>
        /\ balance = lastCall.balBefore
        /\ history = lastCall.histBefore
        /\ lastCall.msg = "insufficient_funds"
        /\ lastCall.ret # InvalidAmountReturn

\* C3 amended: withdraw(a) with a > 0 and a greater than the current balance
\* changes nothing, returns False (the same value as for an invalid amount)
\* and prints the insufficient-funds line, which is not the line printed for
\* an invalid amount.
C3_InsufficientFunds ==
    (lastCall.op = "withdraw" /\ lastCall.amount > lastCall.balBefore
                              /\ lastCall.amount > 0) =>
        /\ balance = lastCall.balBefore
        /\ history = lastCall.histBefore
        /\ lastCall.ret = FALSE
        /\ lastCall.msg = "insufficient_funds"
        /\ lastCall.msg # withdrawBody(lastCall.balBefore, 0).msg

\* Reached: an overdraft attempt on an account with a positive balance and a
\* log entry.
C3_Witness ==
    /\ lastCall.op = "withdraw"
    /\ lastCall.amount > lastCall.balBefore
    /\ lastCall.balBefore > 0
    /\ Len(history) > 0

\* C4: the log has one entry per call that returned True and none for the
\* others; the i-th entry has the kind and amount of the i-th such call; and
\* a step never removes or reorders the entries already there.
C4_LogMatchesCalls ==
    /\ [](/\ Len(history) = Len(calls)
          /\ \A i \in 1..Len(history) :
                /\ history[i].type = calls[i].type
                /\ history[i].amount = calls[i].amount)
    /\ [][/\ Len(history') >= Len(history)
          /\ SubSeq(history', 1, Len(history)) = history]_vars

\* Reached: a deposit and a withdrawal logged in that order, then a failed
\* call.
C4_Witness ==
    /\ Len(history) = 2
    /\ history[1].type = "deposit"
    /\ history[2].type = "withdraw"
    /\ IsTransaction(lastCall)
    /\ ~lastCall.ret

----------------------------------------------------------------------------
(* What a caller can do with the list get_statement() returned. *)

OwnDicts == {Transaction("deposit", MaxAmount, 0)}

Fields == {"type", "amount", "timestamp"}

\* The value the caller writes into a field.
FieldValues(f) ==
    IF f = "type" THEN {"void"}
    ELSE IF f = "amount" THEN {0}
    ELSE {0}

SetField(d, f, v) ==
    IF f = "type" THEN [d EXCEPT !.type = v]
    ELSE IF f = "amount" THEN [d EXCEPT !.amount = v]
    ELSE [d EXCEPT !.timestamp = v]

RemoveAt(s, k) == [i \in 1..(Len(s) - 1) |-> IF i < k THEN s[i] ELSE s[i + 1]]

CallerStep == [NoCall EXCEPT !.op = "caller", !.balBefore = balance,
                             !.histBefore = history]

\* statement.append(d)
StatementAppend(d) ==
    /\ held
    /\ Len(statement) <= MaxLog
    /\ statement' = Append(statement, Own(d))
    /\ lastCall' = CallerStep
    /\ UNCHANGED <<initial, balance, history, held, calls, notBank>>

\* del statement[k]
StatementRemove(k) ==
    /\ held
    /\ k \in 1..Len(statement)
    /\ statement' = RemoveAt(statement, k)
    /\ lastCall' = CallerStep
    /\ UNCHANGED <<initial, balance, history, held, calls, notBank>>

\* statement[k][f] = v: the dict written is the object the list refers to.
StatementSetField(k, f, v) ==
    /\ held
    /\ k \in 1..Len(statement)
    /\ IF statement[k].internal
       THEN /\ history' = [history EXCEPT
                              ![statement[k].at] = SetField(@, f, v)]
            /\ UNCHANGED statement
       ELSE /\ statement' = [statement EXCEPT
                              ![k] = Own(SetField(@.own, f, v))]
            /\ UNCHANGED history
    /\ lastCall' = CallerStep
    /\ UNCHANGED <<initial, balance, held, calls, notBank>>

NextCaller ==
    \/ \E a \in Amounts, t \in Times : deposit(a, t)
    \/ \E a \in Amounts, t \in Times : withdraw(a, t)
    \/ get_statement
    \/ \E d \in OwnDicts : StatementAppend(d)
    \/ \E k \in 1..(MaxLog + 1) : StatementRemove(k)
    \/ \E k \in 1..(MaxLog + 1), f \in Fields :
          \E v \in FieldValues(f) : StatementSetField(k, f, v)


----------------------------------------------------------------------------
(* 04_abstraction.py : Database, MySQLDatabase, SQLiteDatabase *)

Backends == {"MySQLDatabase", "SQLiteDatabase"}

Tables == {"users", "orders"}
Ids == 1..MaxId

\* f"SELECT * FROM {table} WHERE id = {id}"
SelectById(table, id) == [select |-> "*", table |-> table, id |-> id]

Queries == {SelectById(t, i) : t \in Tables, i \in Ids}
               \cup {[select |-> "1", table |-> "", id |-> 0]}

\* The dummy row both backends return.
SampleRow == [id |-> 1, name |-> "sample"]

\* RuntimeError("データベースに接続されていません")
NotConnected == "RuntimeError: not connected"

Raise(error) == [raised |-> TRUE, error |-> error, rows |-> <<>>]
Return(rows) == [raised |-> FALSE, error |-> "", rows |-> rows]

MySQLDatabase_connect(conn) == TRUE

\* Mutant of MySQLDatabase_disconnect: the flag is left as it is.
MySQLDatabase_disconnect_keeps(conn) == conn

MySQLDatabase_disconnect(conn) == FALSE

MySQLDatabase_execute(conn, query) ==
    IF ~conn THEN Raise(NotConnected) ELSE Return(<<SampleRow>>)

SQLiteDatabase_connect(conn) == TRUE

SQLiteDatabase_disconnect(conn) == FALSE

\* Mutant of SQLiteDatabase_execute: the connection is not checked.
SQLiteDatabase_execute_unchecked(conn, query) == Return(<<SampleRow>>)

SQLiteDatabase_execute(conn, query) ==
    IF ~conn THEN Raise(NotConnected) ELSE Return(<<SampleRow>>)

\* Method dispatch on the class of the instance.
connectOf(b, conn) ==
    IF b = "MySQLDatabase" THEN MySQLDatabase_connect(conn)
    ELSE SQLiteDatabase_connect(conn)

disconnectOf(b, conn) ==
    IF b = "MySQLDatabase" THEN MySQLDatabase_disconnect(conn)
    ELSE SQLiteDatabase_disconnect(conn)

executeOf(b, conn, query) ==
    IF b = "MySQLDatabase" THEN MySQLDatabase_execute(conn, query)
    ELSE SQLiteDatabase_execute(conn, query)

\* None and a found record, as the value find_by_id returns.
None == <<>>
Some(row) == <<row>>

\* IndexError from results[0] on an empty list.
IndexError == "IndexError"

\* Mutant of find_by_idBody: results[0] without the emptiness test.
find_by_idBody_unguarded(out) ==
    IF out.raised THEN [raised |-> TRUE, error |-> out.error, value |-> None]
    ELSE IF out.rows = <<>>
    THEN [raised |-> TRUE, error |-> IndexError, value |-> None]
    ELSE [raised |-> FALSE, error |-> "", value |-> Some(out.rows[1])]

\* Database.find_by_id after self.execute(...) gave `out`: an exception of
\* execute propagates; otherwise results[0] if results else None.
find_by_idBody(out) ==
    IF out.raised THEN [raised |-> TRUE, error |-> out.error, value |-> None]
    ELSE [raised |-> FALSE, error |-> "",
          value |-> IF out.rows # <<>> THEN Some(out.rows[1]) ELSE None]

DbCall(op, b, query, wasConnected, out, value) ==
    [op |-> op, backend |-> b, query |-> query, wasConnected |-> wasConnected,
     raised |-> out.raised, error |-> out.error, rows |-> out.rows,
     value |-> value]

NoQuery == [select |-> "", table |-> "", id |-> 0]

connect(b) ==
    /\ connected' = [connected EXCEPT ![b] = connectOf(b, @)]
    /\ everConnected' = [everConnected EXCEPT ![b] = TRUE]
    /\ lastConn' = [lastConn EXCEPT ![b] = "connect"]
    /\ dbCall' = DbCall("connect", b, NoQuery, connected, Return(<<>>), None)
    /\ UNCHANGED notDb

disconnect(b) ==
    /\ connected' = [connected EXCEPT ![b] = disconnectOf(b, @)]
    /\ lastConn' = [lastConn EXCEPT ![b] = "disconnect"]
    /\ dbCall' = DbCall("disconnect", b, NoQuery, connected, Return(<<>>), None)
    /\ UNCHANGED <<everConnected, notDb>>

execute(b, query) ==
    /\ dbCall' = DbCall("execute", b, query, connected,
                        executeOf(b, connected[b], query), None)
    /\ UNCHANGED <<connected, everConnected, lastConn, notDb>>

\* find_by_id on a MySQLDatabase or SQLiteDatabase instance.
find_by_id(b, table, id) ==
    LET out == executeOf(b, connected[b], SelectById(table, id))
        res == find_by_idBody(out)
    IN  /\ dbCall' = DbCall("find_by_id", b, SelectById(table, id), connected,
                            [out EXCEPT !.raised = res.raised,
                                        !.error = res.error],
                            res.value)
        /\ UNCHANGED <<connected, everConnected, lastConn, notDb>>

\* MySQLDatabase.__init__ and SQLiteDatabase.__init__: one instance of each.
InitDb ==
    /\ connected = [b \in Backends |-> FALSE]
    /\ everConnected = [b \in Backends |-> FALSE]
    /\ lastConn = [b \in Backends |-> "none"]
    /\ dbCall = DbCall("init", "", NoQuery, connected, Return(<<>>), None)

NextDb ==
    \/ \E b \in Backends : connect(b)
    \/ \E b \in Backends : disconnect(b)
    \/ \E b \in Backends, q \in Queries : execute(b, q)
    \/ \E b \in Backends, t \in Tables, i \in Ids : find_by_id(b, t, i)

----------------------------------------------------------------------------
(* Database.find_by_id over any implementation of the abstract execute *)

OtherRow == [id |-> 2, name |-> "other"]
Rows == {SampleRow, OtherRow}

RECURSIVE SeqsUpTo(_, _)
SeqsUpTo(S, n) ==
    IF n = 0 THEN {<<>>}
    ELSE LET shorter == SeqsUpTo(S, n - 1)
         IN  shorter \cup {Append(q, x) : q \in shorter, x \in S}

\* What an implementation of execute can do: raise, or return a list of rows.
ExecOutcomes == {Raise(NotConnected)} \cup {Return(r) : r \in SeqsUpTo(Rows, MaxRows)}

NotCalled == [called |-> FALSE, query |-> NoQuery, raised |-> FALSE,
              error |-> "", value |-> None]

\* db.find_by_id(table, id) where self.execute behaves as execOut says.
find_by_id_abstract(table, id) ==
    LET res == find_by_idBody(execOut)
    IN  /\ found' = [called |-> TRUE, query |-> SelectById(table, id),
                     raised |-> res.raised, error |-> res.error,
                     value |-> res.value]
        /\ UNCHANGED <<execOut, notFind>>

InitFind ==
    /\ execOut \in ExecOutcomes
    /\ found = NotCalled

IdleFind ==
    /\ execOut = Return(<<>>)
    /\ found = NotCalled

NextFind == \E t \in Tables, i \in Ids : find_by_id_abstract(t, i)

----------------------------------------------------------------------------
(* 04_abstraction.py : NotificationFacade *)

\* A key the user dict does not have.
Absent == "<absent>"

\* What a key of the user dict can hold: nothing (no such key), the empty
\* string, or a non-empty string.
NameValues == {Absent, "", "Tanaka"}
EmailValues == {Absent, "", "tanaka@example.com"}
PhoneValues == {Absent, "", "090-1234-5678"}
DeviceValues == {Absent, "", "device_abc123"}

Users == [name : NameValues, email : EmailValues, phone : PhoneValues,
          device_id : DeviceValues]

Messages == {"shipped"}
DefaultTitle == "notice"
Titles == {DefaultTitle, "order"}

\* The truth value of user.get(key): None (no key) and "" are false.
Truthy(v) == v # Absent /\ v # ""

\* EmailService.send / SMSService.send / PushNotificationService.send, as the
\* invocation each receives.
EmailSend(to, subject, body) ==
    [channel |-> "email", to |-> to, title |-> subject, body |-> body]
SMSSend(phone, message) ==
    [channel |-> "sms", to |-> phone, title |-> "", body |-> message]
PushSend(device_id, title, body) ==
    [channel |-> "push", to |-> device_id, title |-> title, body |-> body]

KeyError == "KeyError: name"

\* Mutant of notify_userBody: the SMS branch tests the email field.
notify_userBody_sms_on_email(user, message, title) ==
    IF user.name = Absent
    THEN [raised |-> TRUE, error |-> KeyError, sent |-> <<>>]
    ELSE [raised |-> FALSE, error |-> "",
          sent |-> (IF Truthy(user.email)
                    THEN <<EmailSend(user.email, title, message)>> ELSE <<>>)
                \o (IF Truthy(user.email)
                    THEN <<SMSSend(user.phone, message)>> ELSE <<>>)
                \o (IF Truthy(user.device_id)
                    THEN <<PushSend(user.device_id, title, message)>>
                    ELSE <<>>)]

\* notify_user: user['name'] is read first (KeyError without the key), then
\* each channel is invoked if user.get(key) is true.
notify_userBody(user, message, title) ==
    IF user.name = Absent
    THEN [raised |-> TRUE, error |-> KeyError, sent |-> <<>>]
    ELSE [raised |-> FALSE, error |-> "",
          sent |-> (IF Truthy(user.email)
                    THEN <<EmailSend(user.email, title, message)>> ELSE <<>>)
                \o (IF Truthy(user.phone)
                    THEN <<SMSSend(user.phone, message)>> ELSE <<>>)
                \o (IF Truthy(user.device_id)
                    THEN <<PushSend(user.device_id, title, message)>>
                    ELSE <<>>)]

notify_user(user, message, title) ==
    LET r == notify_userBody(user, message, title)
    IN  /\ notified' = [called |-> TRUE, user |-> user, message |-> message,
                        title |-> title, raised |-> r.raised,
                        error |-> r.error, sent |-> r.sent]
        /\ UNCHANGED notNotify

\* NotificationFacade.__init__: nothing sent yet.
InitNotify ==
    notified = [called |-> FALSE,
                user |-> [name |-> Absent, email |-> Absent, phone |-> Absent,
                          device_id |-> Absent],
                message |-> "", title |-> "", raised |-> FALSE, error |-> "",
                sent |-> <<>>]

NextNotify ==
    \E u \in Users, m \in Messages, t \in Titles : notify_user(u, m, t)

----------------------------------------------------------------------------
(* 04_abstraction.py : WeatherAPI, RealWeatherAPI, MockWeatherAPI,
   WeatherReport.  A temperature is a float; it is held in tenths of a
   degree. *)

Tenths == 10

Temps == (0 - MaxFrost * Tenths)..(MaxTemp * Tenths)

Cities == {"Tokyo", "Osaka"}

RealWeatherAPI == [class |-> "RealWeatherAPI", temperature |-> 0]
MockWeatherAPI(temperature) ==
    [class |-> "MockWeatherAPI", temperature |-> temperature]

\* get_temperature: 25.0 from the real API, the fixed value from the mock.
get_temperature(a, city) ==
    IF a.class = "RealWeatherAPI" THEN 25 * Tenths ELSE a.temperature

\* Mutant of generateBody: the second threshold is exclusive.
generateBody_exclusive(city, temp) ==
    [city |-> city, temp |-> temp,
     feeling |-> IF temp >= 30 * Tenths THEN "hot"
                 ELSE IF temp > 20 * Tenths THEN "comfortable"
                 ELSE IF temp >= 10 * Tenths THEN "cool"
                 ELSE "cold"]

\* WeatherReport.generate after temp was fetched: the parts of the returned
\* string f"{city}の気温は{temp}°C（{feeling}）です".
generateBody(city, temp) ==
    [city |-> city, temp |-> temp,
     feeling |-> IF temp >= 30 * Tenths THEN "hot"
                 ELSE IF temp >= 20 * Tenths THEN "comfortable"
                 ELSE IF temp >= 10 * Tenths THEN "cool"
                 ELSE "cold"]

NoReport == [made |-> FALSE, text |-> [city |-> "", temp |-> 0, feeling |-> ""]]

\* WeatherReport(api): a new report object, which has generated nothing yet.
NewWeatherReport(a) ==
    /\ api' = a
    /\ report' = NoReport
    /\ UNCHANGED notWeather

generate(city) ==
    /\ report' = [made |-> TRUE,
                  text |-> generateBody(city, get_temperature(api, city))]
    /\ UNCHANGED <<api, notWeather>>

InitWeather ==
    /\ api = RealWeatherAPI
    /\ report = NoReport

NextWeather ==
    \/ NewWeatherReport(RealWeatherAPI)
    \/ \E t \in Temps : NewWeatherReport(MockWeatherAPI(t))
    \/ \E c \in Cities : generate(c)

----------------------------------------------------------------------------
(* Specifications: one per demo *)

Init == InitBank /\ InitDb /\ IdleFind /\ InitNotify /\ InitWeather

Spec == Init /\ [][Next]_vars

SpecCaller == Init /\ [][NextCaller]_vars

InitOthers == IdleBank /\ InitDb /\ IdleFind /\ InitNotify /\ InitWeather

SpecDb == InitOthers /\ [][NextDb]_vars

InitFindAll == IdleBank /\ InitDb /\ InitFind /\ InitNotify /\ InitWeather

SpecFind == InitFindAll /\ [][NextFind]_vars

SpecNotify == InitOthers /\ [][NextNotify]_vars

SpecWeather == InitOthers /\ [][NextWeather]_vars

----------------------------------------------------------------------------
(* Claim about the list get_statement returns *)

\* C5: nothing a caller does to a list returned by get_statement() changes
\* the internal history: the records stay exactly as they were appended.
C5_HistoryProtected == history = calls

----------------------------------------------------------------------------
(* Claims about Database *)

\* C6: on either backend, execute on an instance on which connect was never
\* called raises the "not connected" error and returns no rows, whatever the
\* query.
C6_ExecuteBeforeConnect ==
    (dbCall.op = "execute" /\ ~everConnected[dbCall.backend]) =>
        /\ dbCall.raised
        /\ dbCall.error = NotConnected
        /\ dbCall.rows = <<>>

\* Reached: execute on a never-connected SQLite instance while the MySQL
\* instance is connected.
C6_Witness ==
    /\ dbCall.op = "execute"
    /\ dbCall.backend = "SQLiteDatabase"
    /\ ~everConnected["SQLiteDatabase"]
    /\ connected["MySQLDatabase"]

\* C7: find_by_id returns the first record of what execute returned when
\* that is non-empty and None when it is empty, and raises exactly when
\* execute raised, with execute's error.
C7_FindById ==
    found.called =>
        /\ found.raised = execOut.raised
        /\ execOut.raised => found.error = execOut.error
        /\ (~execOut.raised /\ execOut.rows = <<>>) => found.value = None
        /\ (~execOut.raised /\ execOut.rows # <<>>) =>
               found.value = Some(Head(execOut.rows))

\* Reached: find_by_id over an execute that returned an empty list.
C7_Witness ==
    /\ found.called
    /\ ~execOut.raised
    /\ execOut.rows = <<>>
    /\ found.value = None

\* C10: on either backend execute succeeds exactly when the latest
\* connect/disconnect call on the instance was connect, and fails with the
\* not-connected error otherwise; connect and disconnect set the flag whatever
\* it was and leave the other instance alone; execute and find_by_id never
\* change a flag.
C10_ConnectionLifecycle ==
    /\ [](/\ \A b \in Backends : connected[b] = (lastConn[b] = "connect")
          /\ dbCall.op = "execute" =>
                /\ dbCall.raised = (lastConn[dbCall.backend] # "connect")
                /\ dbCall.raised => dbCall.error = NotConnected
                /\ ~dbCall.raised => dbCall.rows # <<>>)
    /\ [][/\ dbCall'.op \in {"execute", "find_by_id"} =>
                connected' = connected
          /\ dbCall'.op = "connect" =>
                /\ connected'[dbCall'.backend]
                /\ \A b \in Backends \ {dbCall'.backend} :
                      connected'[b] = connected[b]
          /\ dbCall'.op = "disconnect" =>
                /\ ~connected'[dbCall'.backend]
                /\ \A b \in Backends \ {dbCall'.backend} :
                      connected'[b] = connected[b]]_vars

\* Reached: execute failing on an instance that was connected and then
\* disconnected.
C10_Witness ==
    /\ dbCall.op = "execute"
    /\ dbCall.raised
    /\ everConnected[dbCall.backend]
    /\ lastConn[dbCall.backend] = "disconnect"

----------------------------------------------------------------------------
(* Claims about NotificationFacade *)

Channels == {"email", "sms", "push"}

FieldOf(user, channel) ==
    IF channel = "email" THEN user.email
    ELSE IF channel = "sms" THEN user.phone
    ELSE user.device_id

\* How many times the latest notify_user call invoked the channel.
Invocations(channel) ==
    Cardinality({i \in 1..Len(notified.sent) :
                    notified.sent[i].channel = channel})

\* C8 as stated: each channel whose contact field is present on the record is
\* invoked exactly once, the others not at all, and no error is raised.
C8_AsStated ==
    notified.called =>
        /\ ~notified.raised
        /\ \A c \in Channels :
              Invocations(c) =
                  IF FieldOf(notified.user, c) # Absent THEN 1 ELSE 0

\* C8 amended: on a record that has a name, each channel whose contact field
\* is present with a non-empty value is invoked exactly once with that value,
\* the others not at all, and no error is raised; a record without a name
\* raises KeyError before any channel is invoked.
C8_NotifyUser ==
    notified.called =>
        IF notified.user.name = Absent
        THEN notified.raised /\ notified.sent = <<>>
        ELSE /\ ~notified.raised
             /\ \A c \in Channels :
                   Invocations(c) =
                       IF Truthy(FieldOf(notified.user, c)) THEN 1 ELSE 0
             /\ \A i \in 1..Len(notified.sent) :
                   notified.sent[i].to =
                       FieldOf(notified.user, notified.sent[i].channel)

\* Reached: a record with a name and an email only; the email channel alone
\* was invoked.
C8_Witness ==
    /\ notified.called
    /\ notified.user.name # Absent
    /\ Truthy(notified.user.email)
    /\ notified.user.phone = Absent
    /\ notified.user.device_id = Absent
    /\ Len(notified.sent) = 1
    /\ notified.sent[1].channel = "email"

----------------------------------------------------------------------------
(* Claims about WeatherReport *)

\* C9: generate reports the temperature the injected source returned and
\* exactly the band of the table t >= 30 hot, 20 <= t < 30 comfortable,
\* 10 <= t < 20 cool, t < 10 cold; a mock at 35 gives hot, at 5 cold, at
\* exactly 20 comfortable.
C9_Bands ==
    report.made =>
        LET t == report.text.temp
            f == report.text.feeling
        IN  /\ t = get_temperature(api, report.text.city)
            /\ (f = "hot") = (t >= 30 * Tenths)
            /\ (f = "comfortable") = (20 * Tenths <= t /\ t < 30 * Tenths)
            /\ (f = "cool") = (10 * Tenths <= t /\ t < 20 * Tenths)
            /\ (f = "cold") = (t < 10 * Tenths)
            /\ t = 35 * Tenths => f = "hot"
            /\ t = 5 * Tenths => f = "cold"
            /\ t = 20 * Tenths => f = "comfortable"

\* Reached: a report generated for Tokyo from a mock fixed at exactly 20.
C9_Witness ==
    /\ report.made
    /\ api = MockWeatherAPI(20 * Tenths)
    /\ report.text.city = "Tokyo"
    /\ report.text.feeling = "comfortable"

====
